---- MODULE Spec2Model ----
(***************************************************************************)
(* The useModelList hook of src/src/hooks/useModelList.ts: the held model  *)
(* list, the provider-change effect and the asynchronous refresh(provider) *)
(* with its per-provider precondition, endpoint, authentication header and *)
(* response normalizer.                                                    *)
(*                                                                         *)
(* Strings are sequences of chunks (a chunk is a piece of text that the    *)
(* code's patterns never cut: "models/", "gemini", "text", ",", ...), so   *)
(* split, startsWith, includes and replace are computed on them as the     *)
(* code computes them on characters.  The empty string is <<>>.            *)
(***************************************************************************)
EXTENDS Naturals, Sequences, FiniteSets

VARIABLES
    mode,        \* line 88: the mode the hook read at its last render
    provider,    \* line 88: the provider the hook read at its last render
    modelList,   \* line 87: the held model list (useState)
    inflight,    \* the refresh invocations suspended at an await, in start order
    started,     \* number of refresh invocations so far
    fetches,     \* number of fetch calls issued so far
    settled,     \* number of invocations settled after their fetch call
    latestDone,  \* highest invocation number that completed with a list so far
    last         \* what the most recent step did (request issued, promise settled)

vars == <<mode, provider, modelList, inflight, started, fetches, settled, latestDone, last>>

(***************************************************************************)
(* Bounds                                                                  *)
(***************************************************************************)
MaxKeyLen == 3      \* chunks in a credential string
MaxItems == 2       \* entries of a response body's source array
MaxCalls == 2       \* refresh invocations of a behaviour of Spec

(***************************************************************************)
(* String helpers                                                          *)
(***************************************************************************)
SeqsUpTo(S, n) == UNION {[1..k -> S] : k \in 0..n}

\* String.prototype.startsWith
StartsWith(s, prefix) ==
    /\ Len(s) >= Len(prefix)
    /\ SubSeq(s, 1, Len(prefix)) = prefix

\* String.prototype.includes, for a one-chunk pattern
Includes(s, chunk) == \E i \in 1..Len(s) : s[i] = chunk

\* String.prototype.replace(chunk, ""): removes the FIRST occurrence only
ReplaceFirst(s, chunk) ==
    IF ~Includes(s, chunk) THEN s
    ELSE LET i == CHOOSE j \in 1..Len(s) :
                     /\ s[j] = chunk
                     /\ \A k \in 1..(j-1) : s[k] # chunk
         IN SubSeq(s, 1, i-1) \o SubSeq(s, i+1, Len(s))

\* String.prototype.split(","): "" gives [""], "a," gives ["a", ""]
RECURSIVE Split(_)
Split(s) ==
    IF ~Includes(s, ",") THEN <<s>>
    ELSE LET i == CHOOSE j \in 1..Len(s) :
                     /\ s[j] = ","
                     /\ \A k \in 1..(j-1) : s[k] # ","
         IN <<SubSeq(s, 1, i-1)>> \o Split(SubSeq(s, i+1, Len(s)))

\* radash shuffle: any permutation of the list may come out
Shuffle(xs) ==
    LET n == Len(xs)
        perms == {f \in [1..n -> 1..n] : \A i, j \in 1..n : f[i] = f[j] => i = j}
    IN {[i \in 1..n |-> xs[f[i]]] : f \in perms}

(***************************************************************************)
(* Provider registry                                                       *)
(***************************************************************************)
Modes == {"local", "proxy"}

Providers ==
    {"google", "openrouter", "openai", "anthropic", "deepseek", "xai",
     "openaicompatible", "ollama"}

\* an identifier that no branch of refresh matches
UnknownProvider == "mistral"

ProviderIds == Providers \cup {UnknownProvider}

\* the branches that read a credential field from the settings store
Credentialed == Providers \ {"ollama"}

\* the default base URL of each branch (imported from @/constants/urls)
DefaultBaseUrl(p) ==
    CASE p = "google" -> <<"GEMINI_BASE_URL">>
      [] p = "openrouter" -> <<"OPENROUTER_BASE_URL">>
      [] p = "openai" -> <<"OPENAI_BASE_URL">>
      [] p = "anthropic" -> <<"ANTHROPIC_BASE_URL">>
      [] p = "deepseek" -> <<"DEEPSEEK_BASE_URL">>
      [] p = "xai" -> <<"XAI_BASE_URL">>
      [] p = "openaicompatible" -> <<"OPENAI_BASE_URL">>
      [] p = "ollama" -> <<"OLLAMA_BASE_URL">>

\* the second argument of completePath in each branch
ApiPrefix(p) ==
    CASE p = "google" -> "/v1beta"
      [] p = "openrouter" -> "/api/v1"
      [] p = "ollama" -> "/api"
      [] OTHER -> "/v1"

\* what each branch appends to completePath's result
ListSuffix(p) == IF p = "ollama" THEN "/tags" ELSE "/models"

\* the URL each branch uses when mode is not local (ollama: when mode is proxy)
ProxyPath(p) ==
    CASE p = "google" -> <<"/api/ai/google/v1beta/models">>
      [] p = "openrouter" -> <<"/api/ai/openrouter/v1/models">>
      [] p = "openai" -> <<"/api/ai/openai/v1/models">>
      [] p = "anthropic" -> <<"/api/ai/anthropic/v1/models">>
      [] p = "deepseek" -> <<"/api/ai/deepseek/v1/models">>
      [] p = "xai" -> <<"/api/ai/xai/v1/models">>
      [] p = "openaicompatible" -> <<"/api/ai/openaicompatible/v1/models">>
      [] p = "ollama" -> <<"/api/ai/ollama/api/tags">>

\* completePath of @/utils/url: strip a trailing slash from base; a base that
\* already ends with the prefix is returned as it is, else the prefix is added
CompletePath(base, prefix) ==
    LET b == IF base # <<>> /\ base[Len(base)] = "/"
             THEN SubSeq(base, 1, Len(base) - 1) ELSE base
    IN IF b # <<>> /\ b[Len(b)] = prefix THEN b ELSE Append(b, prefix)

(***************************************************************************)
(* refresh: precondition, endpoint, credential and headers                 *)
(***************************************************************************)
\* PreconditionFails without the test of the proxy case
PreconditionLocalOnly(p, m, apiKey, accessPassword) ==
    p # "ollama" /\ m = "local" /\ apiKey = <<>>

\* the guard in front of each branch's fetch: true when refresh returns []
\* at once.  The ollama branch reads no credential and tests the proxy case only
PreconditionFails(p, m, apiKey, accessPassword) ==
    IF p = "ollama"
    THEN m = "proxy" /\ accessPassword = <<>>
    ELSE \/ m = "local" /\ apiKey = <<>>
         \/ m = "proxy" /\ accessPassword = <<>>

\* Endpoint with the override honoured in either mode
EndpointOverrideAnyMode(p, m, apiProxy) ==
    IF apiProxy # <<>> \/ m = "local"
    THEN Append(CompletePath(IF apiProxy # <<>> THEN apiProxy ELSE DefaultBaseUrl(p),
                             ApiPrefix(p)), ListSuffix(p))
    ELSE ProxyPath(p)

\* the first argument of fetch (apiProxy || BASE_URL: an empty override falls
\* back to the default)
Endpoint(p, m, apiProxy) ==
    LET base == IF apiProxy # <<>> THEN apiProxy ELSE DefaultBaseUrl(p)
        direct == Append(CompletePath(base, ApiPrefix(p)), ListSuffix(p))
    IN IF p = "ollama"
       THEN IF m = "proxy" THEN ProxyPath(p) ELSE direct
       ELSE IF m = "local" THEN direct ELSE ProxyPath(p)

\* Secret without the test of the mode
SecretIgnoresMode(m, apiKeys, accessPassword) == apiKeys[1]

\* mode === "local" ? apiKeys[0] : accessPassword
Secret(m, apiKeys, accessPassword) ==
    IF m = "local" THEN apiKeys[1] ELSE accessPassword

NoHeader == [name |-> "", scheme |-> "", secret |-> <<>>]

\* the header of each branch that carries the secret
AuthHeader(p, m, secret) ==
    CASE p = "google" -> [name |-> "x-goog-api-key", scheme |-> "", secret |-> secret]
      [] p = "anthropic" -> [name |-> "x-api-key", scheme |-> "", secret |-> secret]
      [] p = "ollama" ->
            IF m = "proxy"
            THEN [name |-> "Authorization", scheme |-> "Bearer", secret |-> secret]
            ELSE NoHeader
      [] OTHER -> [name |-> "authorization", scheme |-> "Bearer", secret |-> secret]

\* the fixed headers the anthropic branch adds
ExtraHeaders(p) ==
    IF p = "anthropic"
    THEN {<<"Content-Type", "application/json">>,
          <<"Anthropic-Version", "2023-06-01">>,
          <<"anthropic-dangerous-direct-browser-access", "true">>}
    ELSE {}

(***************************************************************************)
(* refresh: response normalizers                                           *)
(***************************************************************************)
\* a parsed body: its source array field is absent, an array, or null
NoBody == [field |-> "absent", items |-> <<>>]

\* const { models = [] } / const { data = [] }: the default fills in for an
\* absent field only
SourceArray(body) == IF body.field = "absent" THEN <<>> ELSE body.items

\* NormalizerThrows for a destructuring without the default
NormalizerThrowsWithoutDefault(body) == body.field # "array"

\* .filter / .map on a field that is present and no array raises a TypeError
NormalizerThrows(body) == body.field = "null"

\* GoogleKeep without the test of the generation methods
GoogleKeepAnyMethod(item) == StartsWith(item.name, <<"models/", "gemini">>)


GoogleKeep(item) ==
    /\ StartsWith(item.name, <<"models/", "gemini">>)
    /\ "generateContent" \in item.supportedGenerationMethods

GoogleModels(models) ==
    LET kept == SelectSeq(models, GoogleKeep)
    IN [i \in 1..Len(kept) |-> ReplaceFirst(kept[i].name, "models/")]

IdsOf(data) == [i \in 1..Len(data) |-> data[i].id]

OpenAIKeep(id) ==
    ~ \/ StartsWith(id, <<"text">>)
      \/ StartsWith(id, <<"tts">>)
      \/ StartsWith(id, <<"whisper">>)
      \/ StartsWith(id, <<"dall-e">>)

OpenAIModels(data) == SelectSeq(IdsOf(data), OpenAIKeep)

XAIKeep(id) == ~Includes(id, "image")

XAIModels(data) == SelectSeq(IdsOf(data), XAIKeep)

OllamaModels(models) == [i \in 1..Len(models) |-> models[i].name]

\* newModelList of each branch
Normalize(p, body) ==
    CASE p = "google" -> GoogleModels(SourceArray(body))
      [] p = "openai" -> OpenAIModels(SourceArray(body))
      [] p = "xai" -> XAIModels(SourceArray(body))
      [] p = "ollama" -> OllamaModels(SourceArray(body))
      [] OTHER -> IdsOf(SourceArray(body))

(***************************************************************************)
(* State                                                                   *)
(***************************************************************************)
\* the record of a step; a step fills in the fields it is about
Event(kind, call, p) ==
    [kind |-> kind, call |-> call, provider |-> p,
     apiKey |-> <<>>, apiProxy |-> <<>>, accessPassword |-> <<>>,
     url |-> <<>>, auth |-> NoHeader, extra |-> {},
     body |-> NoBody, value |-> <<>>,
     listBefore |-> modelList, fetchesBefore |-> fetches]

\* the provider selections that the renders of a behaviour read from the store
Selections == {"google", "openai", "ollama"}

Init ==
    /\ mode \in Modes
    /\ provider \in Selections
    /\ modelList = <<>>
    /\ inflight = <<>>
    /\ started = 0
    /\ fetches = 0
    /\ settled = 0
    /\ latestDone = 0
    /\ last = [kind |-> "mount", call |-> 0, provider |-> "",
               apiKey |-> <<>>, apiProxy |-> <<>>, accessPassword |-> <<>>,
               url |-> <<>>, auth |-> NoHeader, extra |-> {},
               body |-> NoBody, value |-> <<>>,
               listBefore |-> <<>>, fetchesBefore |-> 0]

Without(s, i) == SubSeq(s, 1, i-1) \o SubSeq(s, i+1, Len(s))

(***************************************************************************)
(* Actions                                                                 *)
(***************************************************************************)
\* EffectFires with mode in the dependency list in place of provider
EffectFiresOnMode(m, p) == m # mode

\* the dependency list of the effect: it runs when provider differs from the
\* one of the previous render
EffectFires(m, p) == p # provider

\* a render of the hook that reads mode m and provider p from the settings
\* store, and the effect of that render
Render(m, p) ==
    /\ m # mode \/ p # provider
    /\ mode' = m
    /\ provider' = p
    /\ modelList' = IF EffectFires(m, p) THEN <<>> ELSE modelList
    /\ last' = Event("render", 0, p)
    /\ UNCHANGED <<inflight, started, fetches, settled, latestDone>>

\* return [] in front of the fetch, and the final else branch: the promise
\* resolves to [] and nothing else happens
EarlyReturn(p, apiKey, apiProxy, accessPassword) ==
    /\ started' = started + 1
    /\ last' = [Event("early", started + 1, p) EXCEPT
                    !.apiKey = apiKey, !.apiProxy = apiProxy,
                    !.accessPassword = accessPassword]
    /\ UNCHANGED <<mode, provider, modelList, inflight, fetches, settled, latestDone>>

\* const response = await fetch(url, {headers}): the request goes out and the
\* invocation is suspended
IssueFetch(p, apiKey, apiProxy, accessPassword, apiKeys) ==
    LET secret == IF p = "ollama" THEN accessPassword
                  ELSE Secret(mode, apiKeys, accessPassword)
    IN /\ started' = started + 1
       /\ fetches' = fetches + 1
       /\ inflight' = Append(inflight,
                             [call |-> started + 1, provider |-> p, pc |-> "fetch"])
       /\ last' = [Event("fetch", started + 1, p) EXCEPT
                       !.apiKey = apiKey, !.apiProxy = apiProxy,
                       !.accessPassword = accessPassword,
                       !.url = Endpoint(p, mode, apiProxy),
                       !.auth = AuthHeader(p, mode, secret),
                       !.extra = ExtraHeaders(p)]
       /\ UNCHANGED <<mode, provider, modelList, settled, latestDone>>

\* refresh(p) up to its first await, with the values it reads from the
\* settings store
Refresh(p, apiKey, apiProxy, accessPassword) ==
    /\ p \in Credentialed \/ apiKey = <<>>
    /\ p \in Providers \/ (apiProxy = <<>> /\ accessPassword = <<>>)
    /\ IF p \notin Providers \/ PreconditionFails(p, mode, apiKey, accessPassword)
       THEN EarlyReturn(p, apiKey, apiProxy, accessPassword)
       ELSE \E apiKeys \in Shuffle(Split(apiKey)) :
                IssueFetch(p, apiKey, apiProxy, accessPassword, apiKeys)

\* the fetch promise resolves: the invocation goes on to response.json()
FetchResolve(i) ==
    /\ i \in 1..Len(inflight)
    /\ inflight[i].pc = "fetch"
    /\ inflight' = [inflight EXCEPT ![i].pc = "json"]
    /\ last' = Event("response", inflight[i].call, inflight[i].provider)
    /\ UNCHANGED <<mode, provider, modelList, started, fetches, settled, latestDone>>

\* ListAfterRejection for a catch that resets the list
ListResetOnRejection == <<>>

\* the held list after a rejected await (no catch: nothing is written)
ListAfterRejection == modelList

\* the fetch promise rejects: nothing catches it, the refresh promise rejects
FetchReject(i) ==
    /\ i \in 1..Len(inflight)
    /\ inflight[i].pc = "fetch"
    /\ inflight' = Without(inflight, i)
    /\ settled' = settled + 1
    /\ modelList' = ListAfterRejection
    /\ last' = Event("fetchRejected", inflight[i].call, inflight[i].provider)
    /\ UNCHANGED <<mode, provider, started, fetches, latestDone>>

\* response.json() rejects (the body is no JSON): the refresh promise rejects
JsonReject(i) ==
    /\ i \in 1..Len(inflight)
    /\ inflight[i].pc = "json"
    /\ inflight' = Without(inflight, i)
    /\ settled' = settled + 1
    /\ modelList' = ListAfterRejection
    /\ last' = Event("jsonRejected", inflight[i].call, inflight[i].provider)
    /\ UNCHANGED <<mode, provider, started, fetches, latestDone>>

\* Commit without the call of setModelList
CommitSkipped(call, newModelList) == modelList

\* Commit that drops the response of an invocation that is not the newest
CommitIfNewest(call, newModelList) ==
    IF call = started THEN newModelList ELSE modelList

\* setModelList(newModelList) of invocation number call
Commit(call, newModelList) == newModelList

\* response.json() resolves with body: normalize, setModelList, return
JsonResolve(i, body) ==
    /\ i \in 1..Len(inflight)
    /\ inflight[i].pc = "json"
    /\ inflight' = Without(inflight, i)
    /\ settled' = settled + 1
    /\ IF NormalizerThrows(body)
       THEN /\ last' = [Event("threw", inflight[i].call, inflight[i].provider)
                            EXCEPT !.body = body]
            /\ UNCHANGED <<modelList, latestDone>>
       ELSE LET newModelList == Normalize(inflight[i].provider, body)
            IN /\ modelList' = Commit(inflight[i].call, newModelList)
               /\ latestDone' = IF inflight[i].call > latestDone
                                THEN inflight[i].call ELSE latestDone
               /\ last' = [Event("resolved", inflight[i].call, inflight[i].provider)
                               EXCEPT !.body = body, !.value = newModelList]
    /\ UNCHANGED <<mode, provider, started, fetches>>

(***************************************************************************)
(* Inputs                                                                  *)
(***************************************************************************)
KeyChunks == {"k1", "k2", ","}
Keys == SeqsUpTo(KeyChunks, MaxKeyLen)
Passwords == {<<>>, <<"pw">>}
ApiProxies(p) ==
    {<<>>, <<"https://proxy">>, <<"https://proxy", "/">>,
     <<"https://proxy", ApiPrefix(p)>>}

GeminiNames ==
    {<<"models/", "gemini">>, <<"models/", "gemini", "models/">>,
     <<"models/", "other">>, <<"gemini">>, <<"tuned/", "models/", "gemini">>}
MethodLists == {{"generateContent"}, {"embedContent"}, {"generateContent", "embedContent"}}
IdChunks == {"gpt", "text", "tts", "whisper", "dall-e", "image"}
Ids == {<<c>> : c \in IdChunks} \cup {<<"gpt", c>> : c \in IdChunks}
OllamaNames == {<<"llama">>, <<"models/", "gemini">>, <<"text">>}

Items(p) ==
    CASE p = "google" ->
            [name : GeminiNames, supportedGenerationMethods : MethodLists]
      [] p = "ollama" -> [name : OllamaNames]
      [] OTHER -> [id : Ids]

Bodies(p) ==
    {NoBody, [field |-> "null", items |-> <<>>]}
    \cup {[field |-> "array", items |-> xs] : xs \in SeqsUpTo(Items(p), MaxItems)}

\* the inputs of the behaviours with overlapping invocations
RaceProviders == ProviderIds
RaceKeys == {<<>>, <<"k1">>}
RaceItems(p) ==
    CASE p = "google" ->
            [name : {<<"models/", "gemini">>, <<"models/", "other">>},
             supportedGenerationMethods : {{"generateContent"}}]
      [] p = "ollama" -> [name : {<<"llama">>}]
      [] OTHER -> [id : {<<"gpt">>, <<"text">>}]
RaceBodies(p) ==
    {NoBody, [field |-> "null", items |-> <<>>]}
    \cup {[field |-> "array", items |-> xs] : xs \in SeqsUpTo(RaceItems(p), 1)}

(***************************************************************************)
(* Specifications                                                          *)
(***************************************************************************)
\* up to MaxCalls invocations that may overlap, renders in between
Next ==
    \/ \E m \in Modes, p \in Selections : Render(m, p)
    \/ /\ started < MaxCalls
       /\ \E p \in RaceProviders, apiKey \in RaceKeys, accessPassword \in Passwords :
              Refresh(p, apiKey, <<>>, accessPassword)
    \/ \E i \in 1..Len(inflight) : FetchResolve(i)
    \/ \E i \in 1..Len(inflight) : FetchReject(i)
    \/ \E i \in 1..Len(inflight) : JsonReject(i)
    \/ \E i \in 1..Len(inflight) :
           /\ inflight[i].pc = "json"
           /\ \E body \in RaceBodies(inflight[i].provider) : JsonResolve(i, body)

Spec == Init /\ [][Next]_vars

\* one invocation under the mode of the mount: every provider, every
\* configuration and every body of the bounds
NextOne ==
    \/ /\ started = 0
       /\ \E p \in ProviderIds, apiKey \in Keys, accessPassword \in Passwords :
              \E apiProxy \in ApiProxies(p) \cup {<<>>} :
                  Refresh(p, apiKey, apiProxy, accessPassword)
    \/ \E i \in 1..Len(inflight) : FetchResolve(i)
    \/ \E i \in 1..Len(inflight) : FetchReject(i)
    \/ \E i \in 1..Len(inflight) : JsonReject(i)
    \/ \E i \in 1..Len(inflight) :
           /\ inflight[i].pc = "json"
           /\ \E body \in Bodies(inflight[i].provider) : JsonResolve(i, body)

SpecOne == Init /\ [][NextOne]_vars

(***************************************************************************)
(* Properties                                                              *)
(***************************************************************************)
Range(xs) == {xs[i] : i \in 1..Len(xs)}

\* the step just taken is the start of a refresh of a supported provider
JustStarted == last.kind \in {"early", "fetch"} /\ last.provider \in Providers

\* C1, as stated: for every supported provider, ollama included, a refresh
\* started in local mode with an empty credential, or in proxy mode with an
\* empty access password, resolves to [] and issues no fetch call.
C1_EmptyCredentialNoFetch ==
    (/\ JustStarted
     /\ \/ mode = "local" /\ last.apiKey = <<>>
        \/ mode = "proxy" /\ last.accessPassword = <<>>)
    => /\ last.kind = "early"
       /\ last.value = <<>>
       /\ last.url = <<>>
       /\ fetches = last.fetchesBefore

\* C1, amended: the local-mode clause holds for the providers that have a
\* credential (all but ollama); the proxy-mode clause holds for all eight.
C1_EmptyCredentialNoFetchCredentialed ==
    (/\ JustStarted
     /\ \/ mode = "local" /\ last.provider \in Credentialed /\ last.apiKey = <<>>
        \/ mode = "proxy" /\ last.accessPassword = <<>>)
    => /\ last.kind = "early"
       /\ last.value = <<>>
       /\ last.url = <<>>
       /\ fetches = last.fetchesBefore

\* a local-mode refresh without credential, though the password is set
C1_Witness ==
    /\ last.kind = "early"
    /\ last.provider = "google"
    /\ mode = "local"
    /\ last.apiKey = <<>>
    /\ last.accessPassword # <<>>
    /\ fetches = 0

\* C2, as stated: whenever refresh resolves with a list, early returns
\* included, the held model list equals that list.
C2_HeldListEqualsResult ==
    last.kind \in {"early", "resolved"} => modelList = last.value

\* C2, amended: a refresh that resolves after its request leaves the held list
\* equal to its result; a refresh that returns [] early leaves the held list
\* as it was.
C2_HeldListEqualsFetchedResult ==
    /\ last.kind = "resolved" => modelList = last.value
    /\ last.kind = "early" => modelList = last.listBefore

\* an early return that leaves a list of models in place
C2_Witness ==
    /\ last.kind = "early"
    /\ last.value = <<>>
    /\ modelList # <<>>

RefKeep(p, item) ==
    CASE p = "google" ->
            /\ StartsWith(item.name, <<"models/", "gemini">>)
            /\ "generateContent" \in item.supportedGenerationMethods
      [] p = "openai" ->
            \A pre \in {"text", "tts", "whisper", "dall-e"} :
                ~StartsWith(item.id, <<pre>>)
      [] p = "xai" -> \A i \in 1..Len(item.id) : item.id[i] # "image"
      [] OTHER -> TRUE

RefId(p, item) ==
    CASE p = "google" ->
            IF StartsWith(item.name, <<"models/">>) THEN Tail(item.name)
            ELSE item.name
      [] p = "ollama" -> item.name
      [] OTHER -> item.id

RECURSIVE RefList(_, _)
RefList(p, items) ==
    IF items = <<>> THEN <<>>
    ELSE IF RefKeep(p, Head(items))
         THEN <<RefId(p, Head(items))>> \o RefList(p, Tail(items))
         ELSE RefList(p, Tail(items))

RECURSIVE IsSubsequence(_, _)
IsSubsequence(xs, ys) ==
    IF xs = <<>> THEN TRUE
    ELSE IF ys = <<>> THEN FALSE
    ELSE IF Head(xs) = Head(ys) THEN IsSubsequence(Tail(xs), Tail(ys))
    ELSE IsSubsequence(xs, Tail(ys))

\* C4: for a body whose source array is an array of well-formed entries, the
\* list refresh returns is the specification's table applied to the array in
\* response order, and an order-preserving subsequence of the mapped entries.
C4_NormalizerTable ==
    (last.kind = "resolved" /\ last.body.field = "array")
    => LET items == last.body.items
       IN /\ last.value = RefList(last.provider, items)
          /\ IsSubsequence(last.value,
                           [i \in 1..Len(items) |-> RefId(last.provider, items[i])])

\* a google body of which the filter keeps one entry and drops the other
C4_Witness ==
    /\ last.kind = "resolved"
    /\ last.provider = "google"
    /\ Len(last.body.items) = 2
    /\ last.body.items[1].supportedGenerationMethods = {"embedContent"}
    /\ last.value = << <<"gemini">> >>

\* C5: when the fetch of an invocation rejects, the invocation ends rejected,
\* issues no further request and writes nothing to the held list.
C5_FetchFailurePropagates ==
    last.kind = "fetchRejected"
    => /\ modelList = last.listBefore
       /\ fetches = last.fetchesBefore
       /\ \A i \in 1..Len(inflight) : inflight[i].call # last.call
       /\ latestDone # last.call

\* a rejected fetch with a list of models held
C5_Witness ==
    /\ last.kind = "fetchRejected"
    /\ modelList # <<>>
    /\ modelList = last.listBefore

\* C6: a body without the source array field, or with an empty array, makes
\* refresh resolve to [] without raising, and the held list becomes [].
C6_MissingArrayIsEmpty ==
    (/\ last.kind \in {"resolved", "threw"}
     /\ \/ last.body.field = "absent"
        \/ last.body.field = "array" /\ last.body.items = <<>>)
    => /\ last.kind = "resolved"
       /\ last.value = <<>>
       /\ modelList = <<>>

\* a body without the field that replaces a list of models by []
C6_Witness ==
    /\ last.kind = "resolved"
    /\ last.body.field = "absent"
    /\ last.listBefore # <<>>
    /\ modelList = <<>>

\* the internal paths the specification lists
ListedProxyPath(p) ==
    CASE p = "google" -> "/api/ai/google/v1beta/models"
      [] p = "openrouter" -> "/api/ai/openrouter/v1/models"
      [] p = "openai" -> "/api/ai/openai/v1/models"
      [] p = "anthropic" -> "/api/ai/anthropic/v1/models"
      [] p = "deepseek" -> "/api/ai/deepseek/v1/models"
      [] p = "xai" -> "/api/ai/xai/v1/models"
      [] p = "openaicompatible" -> "/api/ai/openaicompatible/v1/models"
      [] p = "ollama" -> "/api/ai/ollama/api/tags"

\* C7: a request issued in proxy mode goes to the provider's fixed internal
\* path, whatever the proxy-URL override and the credential are.
C7_ProxyModeFixedPath ==
    (last.kind = "fetch" /\ mode = "proxy")
    => /\ last.accessPassword # <<>>
       /\ last.url = <<ListedProxyPath(last.provider)>>

\* a proxy-mode request while an override and a credential are configured
C7_Witness ==
    /\ last.kind = "fetch"
    /\ mode = "proxy"
    /\ last.provider = "openrouter"
    /\ last.apiProxy = <<"https://proxy">>
    /\ last.apiKey # <<>>
    /\ last.url = <<"/api/ai/openrouter/v1/models">>

\* C8: for the providers with a credential, the secret of a local-mode request
\* is one element of the comma-separated pool and not the access password; the
\* secret of a proxy-mode request is the access password and no element of the
\* pool.
C8_SecretSource ==
    (last.kind = "fetch" /\ last.provider \in Credentialed)
    => IF mode = "local"
       THEN /\ last.auth.secret \in Range(Split(last.apiKey))
            /\ last.accessPassword # <<>> => last.auth.secret # last.accessPassword
       ELSE /\ last.auth.secret = last.accessPassword
            /\ last.auth.secret \notin Range(Split(last.apiKey))

\* a local-mode request that carries the second element of a pool of two
C8_Witness ==
    /\ last.kind = "fetch"
    /\ mode = "local"
    /\ last.provider = "anthropic"
    /\ last.apiKey = <<"k1", ",", "k2">>
    /\ last.accessPassword # <<>>
    /\ last.auth.secret = <<"k2">>

\* C9: every invocation that passes its precondition issues a request of its
\* own, and an invocation that completes after a later-started one has
\* completed still writes its result to the held list.
C9_LastCompletionWins ==
    /\ fetches = Len(inflight) + settled
    /\ \A i, j \in 1..Len(inflight) : i < j => inflight[i].call < inflight[j].call
    /\ (last.kind = "resolved" /\ last.call < latestDone) => modelList = last.value

\* the first of two invocations completes last and replaces the second's list
C9_Witness ==
    /\ last.kind = "resolved"
    /\ last.call = 1
    /\ latestDone = 2
    /\ fetches = 2
    /\ inflight = <<>>
    /\ last.listBefore # <<>>
    /\ last.value # <<>>
    /\ last.value # last.listBefore
    /\ modelList = last.value

\* C10: a local-mode request of a provider with a credential carries a
\* non-empty secret.
C10_LocalSecretNonEmpty ==
    (last.kind = "fetch" /\ mode = "local" /\ last.provider \in Credentialed)
    => last.auth.secret # <<>>

====
